---- MODULE Spec2Model ----
(***************************************************************************)
(* The products and books routers of the record-management API, over a     *)
(* document store.  A document is a record whose business fields hold an   *)
(* optional value: None is <<>> and a value v is <<v>>, so that a field    *)
(* supplied as null differs from a field that is absent from a body.       *)
(* Strings are TLA+ strings (their length is what the schemas constrain),  *)
(* prices are numbers, timestamps are readings of a clock.                 *)
(***************************************************************************)
EXTENDS Integers, Sequences, FiniteSets, TLC

VARIABLES
    products,   \* db.products: ObjectId -> document
    books,      \* db.books:    ObjectId -> document
    nextOid,    \* the next ObjectId the store generates
    clock,      \* what datetime.utcnow() reads now
    last,       \* the last request served in full, and its response
    reqs        \* the update requests in flight, each at one of its awaits

vars == <<products, books, nextOid, clock, last, reqs>>

----------------------------------------------------------------------------
(* Bounds of the model. *)

MaxIds == 2         \* ObjectIds the store hands out
MaxClock == 1       \* the clock reads 0..MaxClock
MaxList == 2        \* longest id list given to delete_many
MaxReqs == 2        \* update requests in flight at once

(* Constants of the schemas and of the query parameters. *)

NameMinLen == 1
NameMaxLen == 100
DescMaxLen == 500
LimitMax == 100
LimitDefault == 10

----------------------------------------------------------------------------
(* Values. *)

None == <<>>
Some(v) == <<v>>

RECURSIVE Rep(_, _)
Rep(s, n) ==
    IF n = 0 THEN ""
    ELSE LET h == Rep(s, n \div 2)
         IN  IF n % 2 = 0 THEN h \o h ELSE h \o h \o s

LongName == Rep("n", NameMaxLen + 1)
LongDesc == Rep("d", DescMaxLen + 1)

Fields == {"name", "description", "price", "category", "stock"}

Oids == 1..MaxIds

(* An id as a request carries it: a string.  hex says whether it is 24 hex *)
(* digits; those of one ObjectId differ in the case of their digits.       *)
IdStrings ==
    [hex : {TRUE}, oid : Oids, upper : BOOLEAN]
        \cup {[hex |-> FALSE, oid |-> 0, upper |-> FALSE]}

(* Mutant: every string passes for an id. *)
ObjectId_is_valid_any(s) == TRUE

ObjectId_is_valid(s) == s.hex

ObjectId(s) == s.oid

str(oid) == [hex |-> TRUE, oid |-> oid, upper |-> FALSE]

----------------------------------------------------------------------------
(* The schemas. *)

NameOk(v) == v # None /\ Len(v[1]) >= NameMinLen /\ Len(v[1]) <= NameMaxLen

DescOk(v) == v # None /\ Len(v[1]) <= DescMaxLen

PriceOk(v) == v # None /\ v[1] > 0

StockOk(v) == v # None /\ v[1] >= 0

(* ProductBase: every field required, none of them Optional. *)
ProductBase(d) ==
    /\ Fields \subseteq DOMAIN d
    /\ NameOk(d["name"])
    /\ DescOk(d["description"])
    /\ PriceOk(d["price"])
    /\ d["category"] # None
    /\ StockOk(d["stock"])

ProductCreate(body) == ProductBase(body)

(* ProductUpdate: every field Optional, so absent or null passes; a value  *)
(* is held to the field's constraints, and description has none.           *)
ProductUpdate(body) ==
    /\ "name" \in DOMAIN body => (body["name"] = None \/ NameOk(body["name"]))
    /\ "price" \in DOMAIN body => (body["price"] = None \/ PriceOk(body["price"]))
    /\ "stock" \in DOMAIN body => (body["stock"] = None \/ StockOk(body["stock"]))

ProductResponse(d) == ProductBase(d)

BookBase(d) ==
    /\ Fields \subseteq DOMAIN d
    /\ NameOk(d["name"])
    /\ DescOk(d["description"])
    /\ PriceOk(d["price"])
    /\ d["category"] # None
    /\ StockOk(d["stock"])

BookCreate(body) == BookBase(body)

BookResponse(d) == BookBase(d)

product_helper(product) ==
    [f \in Fields \cup {"id", "created_at", "updated_at"} |->
        IF f = "id" THEN str(product["_id"]) ELSE product[f]]

book_helper(book) ==
    [f \in Fields \cup {"id", "created_at", "updated_at"} |->
        IF f = "id" THEN str(book["_id"]) ELSE book[f]]

----------------------------------------------------------------------------
(* The store's operations on a collection, a function from ObjectId to     *)
(* document. *)

find_one(coll, oid) == IF oid \in DOMAIN coll THEN <<coll[oid]>> ELSE <<>>

insert_one(coll, oid, dict) ==
    [o \in DOMAIN coll \cup {oid} |->
        IF o = oid THEN [f \in DOMAIN dict \cup {"_id"} |->
                            IF f = "_id" THEN oid ELSE dict[f]]
        ELSE coll[o]]

(* update_one with $set: the fields of data replace the document's. *)
update_one(coll, oid, data) ==
    [o \in DOMAIN coll |->
        IF o = oid
        THEN [f \in DOMAIN coll[o] \cup DOMAIN data |->
                 IF f \in DOMAIN data THEN data[f] ELSE coll[o][f]]
        ELSE coll[o]]

matched_count(coll, oid) == IF oid \in DOMAIN coll THEN 1 ELSE 0

delete_one(coll, oid) == [o \in DOMAIN coll \ {oid} |-> coll[o]]

delete_many(coll, oids) == [o \in DOMAIN coll \ oids |-> coll[o]]

(* Mutant: the count of the ids asked for, not of the documents removed. *)
deleted_count_requested(coll, oids) == Cardinality(oids)

deleted_count(coll, oids) == Cardinality(DOMAIN coll \cap oids)

----------------------------------------------------------------------------
(* A response: the handler, the status, the detail of an error, the body   *)
(* as a sequence (no body, one record, or a list) and the number of store  *)
(* reads and store writes the handler called for.                          *)

Response(op, status, detail, result, reads, writes) ==
    [op |-> op, status |-> status, detail |-> detail, result |-> result,
     reads |-> reads, writes |-> writes]

Init ==
    /\ products = <<>>
    /\ books = <<>>
    /\ nextOid = 1
    /\ clock = 0
    /\ last = Response("none", 0, <<>>, <<>>, 0, 0)
    /\ reqs = <<>>

(* Time passes between two requests. *)
Tick ==
    /\ clock < MaxClock
    /\ clock' = clock + 1
    /\ UNCHANGED <<products, books, nextOid, last, reqs>>

----------------------------------------------------------------------------
(* Inputs. *)

Pen ==
    [name |-> Some("Pen"), description |-> Some("Blue ink"),
     price |-> Some(15), category |-> Some("office"), stock |-> Some(100)]

CreateInputs ==
    {Pen,
     [Pen EXCEPT !["name"] = Some("")],
     [Pen EXCEPT !["name"] = Some(LongName)],
     [Pen EXCEPT !["description"] = Some(LongDesc)],
     [Pen EXCEPT !["price"] = Some(0)],
     [Pen EXCEPT !["stock"] = Some(0 - 1)],
     [Pen EXCEPT !["category"] = None],
     [f \in Fields \ {"stock"} |-> Pen[f]]}

EmptyBody == [f \in {} |-> None]

UpdateInputs ==
    {EmptyBody,
     [f \in {"price", "stock"} |-> IF f = "stock" THEN Some(0) ELSE Some(5)],
     [f \in {"price"} |-> None],
     [f \in {"description"} |-> Some(LongDesc)],
     [f \in {"name"} |-> Some("")],
     [f \in {"name"} |-> Some(LongName)],
     [f \in {"price"} |-> Some(0)],
     [f \in {"stock"} |-> Some(0 - 1)]}

StockInputs == {0 - 1, 0}

RECURSIVE SeqsUpTo(_, _)
SeqsUpTo(S, n) ==
    IF n = 0 THEN {<<>>}
    ELSE LET shorter == SeqsUpTo(S, n - 1)
         IN  shorter \cup {Append(q, x) : q \in shorter, x \in S}

IdLists == SeqsUpTo(IdStrings, MaxList)

----------------------------------------------------------------------------
(* Errors. *)

InvalidId(op) ==
    Response(op, 400, <<"Invalid product ID format">>, <<>>, 0, 0)

NotFound(op, product_id, reads, writes) ==
    Response(op, 404, <<"Product with id ", product_id, " not found">>, <<>>,
             reads, writes)

(* An exception the handler does not catch: a response that fails its     *)
(* response model, or product_helper applied to None.                      *)
ServerError(op, reads, writes) ==
    Response(op, 500, <<"Internal Server Error">>, <<>>, reads, writes)

(* The response of a handler that returns the document found. *)
Returned(op, status, found, reads, writes) ==
    IF found = <<>> THEN ServerError(op, reads, writes)
    ELSE IF ~ProductResponse(product_helper(found[1]))
         THEN ServerError(op, reads, writes)
         ELSE Response(op, status, <<>>, <<product_helper(found[1])>>,
                       reads, writes)

----------------------------------------------------------------------------
(* The handlers of the products router, each served in full. *)

(* A body or query that fails the handler's declared parameter types never *)
(* reaches the handler. *)
validation_error(op) ==
    /\ IF op = "create_product" THEN {b \in CreateInputs : ~ProductCreate(b)} # {}
       ELSE IF op = "update_product" THEN {b \in UpdateInputs : ~ProductUpdate(b)} # {}
       ELSE {n \in StockInputs : ~(n >= 0)} # {}
    /\ last' = Response(op, 422, <<"validation error">>, <<>>, 0, 0)
    /\ UNCHANGED <<products, books, nextOid, clock, reqs>>

(* Mutant: a clock read that lags one tick behind. *)
utcnow_lagging == IF clock = 0 THEN clock ELSE clock - 1

utcnow == clock

create_product(product) ==
    /\ ProductCreate(product)
    /\ nextOid <= MaxIds
    /\ \E now2 \in {clock, clock + 1} :
          /\ now2 <= MaxClock
          /\ LET product_dict ==
                     [f \in Fields \cup {"created_at", "updated_at"} |->
                         IF f = "created_at" THEN utcnow
                         ELSE IF f = "updated_at" THEN now2
                         ELSE product[f]]
                 inserted == insert_one(products, nextOid, product_dict)
                 created_product == find_one(inserted, nextOid)
             IN  /\ products' = inserted
                 /\ nextOid' = nextOid + 1
                 /\ clock' = now2
                 /\ last' = Returned("create_product", 201, created_product, 1, 1)
    /\ UNCHANGED <<books, reqs>>

get_product(product_id) ==
    /\ last' =
          IF ~ObjectId_is_valid(product_id) THEN InvalidId("get_product")
          ELSE LET product == find_one(products, ObjectId(product_id))
               IN  IF product = <<>>
                   THEN NotFound("get_product", product_id, 1, 0)
                   ELSE Returned("get_product", 200, product, 1, 0)
    /\ UNCHANGED <<products, books, nextOid, clock, reqs>>

(* Mutant: dict() without exclude_unset, every field of the model, the     *)
(* unset ones as None.                                                     *)
exclude_unset_all(product_update) ==
    [f \in Fields |->
        IF f \in DOMAIN product_update THEN product_update[f] ELSE None]

(* dict(exclude_unset=True): the fields the body sets, null ones included. *)
exclude_unset(product_update) == product_update

(* Mutant: the body is checked for fields before the record is looked up. *)
update_product_empty_first(product_id, product_update) ==
    /\ ProductUpdate(product_update)
    /\ IF ~ObjectId_is_valid(product_id)
       THEN /\ last' = InvalidId("update_product")
            /\ UNCHANGED products
       ELSE LET existing_product == find_one(products, ObjectId(product_id))
                update_data == exclude_unset(product_update)
                stamped ==
                    [f \in DOMAIN update_data \cup {"updated_at"} |->
                        IF f = "updated_at" THEN clock ELSE update_data[f]]
                updated == update_one(products, ObjectId(product_id), stamped)
                updated_product == find_one(updated, ObjectId(product_id))
            IN  IF DOMAIN update_data = {}
                THEN /\ last' = Response("update_product", 400,
                                         <<"No fields to update">>, <<>>, 0, 0)
                     /\ UNCHANGED products
                ELSE IF existing_product = <<>>
                THEN /\ last' = NotFound("update_product", product_id, 1, 0)
                     /\ UNCHANGED products
                ELSE /\ products' = updated
                     /\ last' = Returned("update_product", 200,
                                         updated_product, 2, 1)
    /\ UNCHANGED <<books, nextOid, clock, reqs>>

update_product(product_id, product_update) ==
    /\ ProductUpdate(product_update)
    /\ IF ~ObjectId_is_valid(product_id)
       THEN /\ last' = InvalidId("update_product")
            /\ UNCHANGED products
       ELSE LET existing_product == find_one(products, ObjectId(product_id))
                update_data == exclude_unset(product_update)
                stamped ==
                    [f \in DOMAIN update_data \cup {"updated_at"} |->
                        IF f = "updated_at" THEN utcnow ELSE update_data[f]]
                updated == update_one(products, ObjectId(product_id), stamped)
                updated_product == find_one(updated, ObjectId(product_id))
            IN  IF existing_product = <<>>
                THEN /\ last' = NotFound("update_product", product_id, 1, 0)
                     /\ UNCHANGED products
                ELSE IF DOMAIN update_data = {}
                THEN /\ last' = Response("update_product", 400,
                                         <<"No fields to update">>, <<>>, 1, 0)
                     /\ UNCHANGED products
                ELSE /\ products' = updated
                     /\ last' = Returned("update_product", 200,
                                         updated_product, 2, 1)
    /\ UNCHANGED <<books, nextOid, clock, reqs>>

(* PATCH: the handler awaits update_product and returns its result, so a   *)
(* PATCH and a PUT with one id and one body take the same steps.           *)
partial_update_product(product_id, product_update) ==
    update_product(product_id, product_update)

update_stock(product_id, stock) ==
    /\ stock >= 0
    /\ IF ~ObjectId_is_valid(product_id)
       THEN /\ last' = InvalidId("update_stock")
            /\ UNCHANGED products
       ELSE LET data == [f \in {"stock", "updated_at"} |->
                           IF f = "stock" THEN Some(stock) ELSE utcnow]
                updated == update_one(products, ObjectId(product_id), data)
                updated_product == find_one(updated, ObjectId(product_id))
            IN  IF matched_count(products, ObjectId(product_id)) = 0
                THEN /\ last' = NotFound("update_stock", product_id, 0, 1)
                     /\ UNCHANGED products
                ELSE /\ products' = updated
                     /\ last' = Returned("update_stock", 200,
                                         updated_product, 1, 1)
    /\ UNCHANGED <<books, nextOid, clock, reqs>>

delete_product(product_id) ==
    /\ IF ~ObjectId_is_valid(product_id)
       THEN /\ last' = InvalidId("delete_product")
            /\ UNCHANGED products
       ELSE IF deleted_count(products, {ObjectId(product_id)}) = 0
       THEN /\ last' = NotFound("delete_product", product_id, 0, 1)
            /\ UNCHANGED products
       ELSE /\ products' = delete_one(products, ObjectId(product_id))
            /\ last' = Response("delete_product", 204, <<>>, <<>>, 0, 1)
    /\ UNCHANGED <<books, nextOid, clock, reqs>>

delete_products(product_ids) ==
    /\ LET valid_ids ==
               {ObjectId(product_ids[i]) :
                   i \in {j \in DOMAIN product_ids :
                             ObjectId_is_valid(product_ids[j])}}
           n == deleted_count(products, valid_ids)
       IN  IF valid_ids = {}
           THEN /\ last' = Response("delete_products", 400,
                                    <<"No valid product IDs provided">>,
                                    <<>>, 0, 0)
                /\ UNCHANGED products
           ELSE /\ products' = delete_many(products, valid_ids)
                /\ last' = Response("delete_products", 200, <<>>,
                                    <<[message |-> <<"Deleted ", n, " products">>,
                                       deleted_count |-> n]>>, 0, 1)
    /\ UNCHANGED <<books, nextOid, clock, reqs>>

----------------------------------------------------------------------------
(* Listing.  A cursor yields the documents that match, in the order of its *)
(* sort (the store is free in the order of documents the sort does not     *)
(* tell apart, and in the order of an unsorted find), then skips and       *)
(* limits.                                                                 *)

Ink ==
    [name |-> Some("Ink"), description |-> Some(""),
     price |-> Some(5), category |-> Some("art"), stock |-> Some(0)]

ListCreateInputs == {Pen, Ink}

CategoryInputs == {None, Some(""), Some("office"), Some("art")}

PriceInputs == {None, Some(5), Some(10)}

SkipInputs == {0 - 1, 0, 1}

LimitInputs == {0, 1, LimitDefault, LimitMax + 1}

Orders(S) ==
    {q \in [1..Cardinality(S) -> S] :
        \A i, j \in 1..Cardinality(S) : i # j => q[i] # q[j]}

SortedNewestFirst(coll, q) ==
    \A i, j \in DOMAIN q :
        i < j => coll[q[i]]["created_at"] >= coll[q[j]]["created_at"]

Min(a, b) == IF a <= b THEN a ELSE b

skip_limit(q, skip, limit) ==
    [i \in 1..(Min(Len(q), skip + limit) - Min(Len(q), skip)) |-> q[skip + i]]

(* Python's truth of an Optional[str]: None and "" are false. *)
truthy(s) == s # None /\ s[1] # ""

(* The filter get_products builds; search is left out of the model. *)
matches(doc, category, min_price, max_price) ==
    /\ truthy(category) => doc["category"] = category
    /\ min_price # None => (doc["price"] # None /\ doc["price"][1] >= min_price[1])
    /\ max_price # None => (doc["price"] # None /\ doc["price"][1] <= max_price[1])

get_products(skip, limit, category, min_price, max_price) ==
    /\ skip >= 0
    /\ limit >= 1
    /\ limit <= LimitMax
    /\ LET found == {o \in DOMAIN products :
                       matches(products[o], category, min_price, max_price)}
       IN  \E q \in Orders(found) :
             /\ SortedNewestFirst(products, q)
             /\ LET page == skip_limit(q, skip, limit)
                IN  last' =
                      IF \E i \in DOMAIN page :
                            ~ProductResponse(product_helper(products[page[i]]))
                      THEN ServerError("get_products", 1, 0)
                      ELSE Response("get_products", 200, <<>>,
                                    [i \in DOMAIN page |->
                                        product_helper(products[page[i]])],
                                    1, 0)
    /\ UNCHANGED <<products, books, nextOid, clock, reqs>>

get_products_by_category(category_name, skip, limit) ==
    /\ skip >= 0
    /\ limit >= 1
    /\ limit <= LimitMax
    /\ LET found == {o \in DOMAIN products :
                       products[o]["category"] = Some(category_name)}
       IN  \E q \in Orders(found) :
             LET page == skip_limit(q, skip, limit)
             IN  last' =
                   IF page = <<>>
                   THEN Response("get_products_by_category", 404,
                                 <<"No products found in category: ",
                                   category_name>>, <<>>, 1, 0)
                   ELSE IF \E i \in DOMAIN page :
                            ~ProductResponse(product_helper(products[page[i]]))
                   THEN ServerError("get_products_by_category", 1, 0)
                   ELSE Response("get_products_by_category", 200, <<>>,
                                 [i \in DOMAIN page |->
                                     product_helper(products[page[i]])],
                                 1, 0)
    /\ UNCHANGED <<products, books, nextOid, clock, reqs>>

(* The books router. *)

create_book(book) ==
    /\ BookCreate(book)
    /\ nextOid <= MaxIds
    /\ \E now2 \in {clock, clock + 1} :
          /\ now2 <= MaxClock
          /\ LET book_dict ==
                     [f \in Fields \cup {"created_at", "updated_at"} |->
                         IF f = "created_at" THEN utcnow
                         ELSE IF f = "updated_at" THEN now2
                         ELSE book[f]]
                 inserted == insert_one(books, nextOid, book_dict)
                 created_book == find_one(inserted, nextOid)
             IN  /\ books' = inserted
                 /\ nextOid' = nextOid + 1
                 /\ clock' = now2
                 /\ last' =
                       IF ~BookResponse(book_helper(created_book[1]))
                       THEN ServerError("create_book", 1, 1)
                       ELSE Response("create_book", 201, <<>>,
                                     <<book_helper(created_book[1])>>, 1, 1)
    /\ UNCHANGED <<products, reqs>>

(* get_books declares no parameter: whatever the query string asks for     *)
(* (skip, limit, category, a price range) is ignored.                      *)
get_books(skip, limit, category, min_price, max_price) ==
    /\ \E q \in Orders(DOMAIN books) :
          /\ SortedNewestFirst(books, q)
          /\ last' =
                IF \E i \in DOMAIN q : ~BookResponse(book_helper(books[q[i]]))
                THEN ServerError("get_books", 1, 0)
                ELSE Response("get_books", 200, <<>>,
                              [i \in DOMAIN q |-> book_helper(books[q[i]])],
                              1, 0)
    /\ UNCHANGED <<products, books, nextOid, clock, reqs>>

(* A query parameter outside its declared range never reaches the handler. *)
query_validation_error(op) ==
    /\ {q \in SkipInputs \X LimitInputs :
            ~(q[1] >= 0 /\ q[2] >= 1 /\ q[2] <= LimitMax)} # {}
    /\ last' = Response(op, 422, <<"validation error">>, <<>>, 0, 0)
    /\ UNCHANGED <<products, books, nextOid, clock, reqs>>

NextList ==
    \/ Tick
    \/ \E op \in {"get_products", "get_products_by_category"} :
          query_validation_error(op)
    \/ \E product \in ListCreateInputs : create_product(product)
    \/ \E book \in ListCreateInputs : create_book(book)
    \/ \E skip \in SkipInputs, limit \in LimitInputs, category \in CategoryInputs,
          min_price \in PriceInputs, max_price \in PriceInputs :
          get_products(skip, limit, category, min_price, max_price)
    \/ \E category \in CategoryInputs \ {None}, skip \in SkipInputs,
          limit \in LimitInputs :
          get_products_by_category(category[1], skip, limit)
    \/ \E skip \in SkipInputs, limit \in LimitInputs, category \in CategoryInputs,
          min_price \in PriceInputs, max_price \in PriceInputs :
          get_books(skip, limit, category, min_price, max_price)

SpecList == Init /\ [][NextList]_vars

----------------------------------------------------------------------------
(* Requests served one after the other. *)

Next ==
    \/ Tick
    \/ \E op \in {"create_product", "update_product", "update_stock"} :
          validation_error(op)
    \/ \E product \in CreateInputs : create_product(product)
    \/ \E book \in CreateInputs : create_book(book)
    \/ \E product_id \in IdStrings : get_product(product_id)
    \/ \E product_id \in IdStrings, product_update \in UpdateInputs :
          partial_update_product(product_id, product_update)
    \/ \E product_id \in IdStrings, stock \in StockInputs :
          update_stock(product_id, stock)
    \/ \E product_id \in IdStrings : delete_product(product_id)
    \/ \E product_ids \in IdLists : delete_products(product_ids)

Spec == Init /\ [][Next]_vars

----------------------------------------------------------------------------
(* Update requests in flight.  A handler is a coroutine: it runs from one  *)
(* await of a store call to the next without interruption, and at each     *)
(* await the store calls of other requests may come first.  A step is the  *)
(* store call together with the code that runs on its return; reqs[r] is   *)
(* the request of slot r, waiting at the call pc names.  The requests race  *)
(* on one product: a product is created only into an empty collection.     *)

ConcUpdateInputs ==
    {EmptyBody, [f \in {"price"} |-> Some(5)]}

ConcStockInputs == {0}

ConcIdStrings == {s \in IdStrings : ~s.upper}

Slots == 1..MaxReqs

(* A request takes the first slot that is free. *)
Free(r) == r \notin DOMAIN reqs /\ \A s \in 1..(r - 1) : s \in DOMAIN reqs

Release(r) == [s \in DOMAIN reqs \ {r} |-> reqs[s]]

Await(r, op, pc, product_id, data) ==
    [s \in DOMAIN reqs \cup {r} |->
        IF s = r THEN [op |-> op, pc |-> pc, product_id |-> product_id,
                       data |-> data]
        ELSE reqs[s]]

(* update_product up to its first store call (find_one, line 158). *)
update_product_start(r, product_id, product_update) ==
    /\ Free(r)
    /\ ProductUpdate(product_update)
    /\ IF ~ObjectId_is_valid(product_id)
       THEN /\ last' = InvalidId("update_product")
            /\ UNCHANGED reqs
       ELSE /\ reqs' = Await(r, "update_product", "find_one", product_id,
                             product_update)
            /\ UNCHANGED last
    /\ UNCHANGED <<products, books, nextOid, clock>>

(* find_one returns; the handler checks the document and the body, stamps  *)
(* updated_at and calls update_one (line 178).                             *)
update_product_find_one(r) ==
    /\ r \in DOMAIN reqs
    /\ reqs[r].op = "update_product"
    /\ reqs[r].pc = "find_one"
    /\ LET product_id == reqs[r].product_id
           existing_product == find_one(products, ObjectId(product_id))
           update_data == exclude_unset(reqs[r].data)
           stamped ==
               [f \in DOMAIN update_data \cup {"updated_at"} |->
                   IF f = "updated_at" THEN utcnow ELSE update_data[f]]
       IN  IF existing_product = <<>>
           THEN /\ last' = NotFound("update_product", product_id, 1, 0)
                /\ reqs' = Release(r)
           ELSE IF DOMAIN update_data = {}
           THEN /\ last' = Response("update_product", 400,
                                    <<"No fields to update">>, <<>>, 1, 0)
                /\ reqs' = Release(r)
           ELSE /\ reqs' = Await(r, "update_product", "update_one",
                                 product_id, stamped)
                /\ UNCHANGED last
    /\ UNCHANGED <<products, books, nextOid, clock>>

(* update_one is applied; the handler ignores its result and calls         *)
(* find_one again (line 184).                                              *)
update_product_update_one(r) ==
    /\ r \in DOMAIN reqs
    /\ reqs[r].op = "update_product"
    /\ reqs[r].pc = "update_one"
    /\ products' = update_one(products, ObjectId(reqs[r].product_id), reqs[r].data)
    /\ reqs' = Await(r, "update_product", "fetch", reqs[r].product_id, <<>>)
    /\ UNCHANGED <<books, nextOid, clock, last>>

(* The second find_one returns, and product_helper is applied to what it   *)
(* found. *)
update_product_fetch(r) ==
    /\ r \in DOMAIN reqs
    /\ reqs[r].op = "update_product"
    /\ reqs[r].pc = "fetch"
    /\ last' = Returned("update_product", 200,
                        find_one(products, ObjectId(reqs[r].product_id)), 2, 1)
    /\ reqs' = Release(r)
    /\ UNCHANGED <<products, books, nextOid, clock>>

(* update_stock up to its store call: update_one, its arguments (the       *)
(* timestamp among them) evaluated before the call (lines 210-213).        *)
update_stock_start(r, product_id, stock) ==
    /\ Free(r)
    /\ stock >= 0
    /\ IF ~ObjectId_is_valid(product_id)
       THEN /\ last' = InvalidId("update_stock")
            /\ UNCHANGED reqs
       ELSE /\ reqs' = Await(r, "update_stock", "update_one", product_id,
                             [f \in {"stock", "updated_at"} |->
                                 IF f = "stock" THEN Some(stock) ELSE utcnow])
            /\ UNCHANGED last
    /\ UNCHANGED <<products, books, nextOid, clock>>

update_stock_update_one(r) ==
    /\ r \in DOMAIN reqs
    /\ reqs[r].op = "update_stock"
    /\ reqs[r].pc = "update_one"
    /\ IF matched_count(products, ObjectId(reqs[r].product_id)) = 0
       THEN /\ last' = NotFound("update_stock", reqs[r].product_id, 0, 1)
            /\ reqs' = Release(r)
            /\ UNCHANGED products
       ELSE /\ products' = update_one(products, ObjectId(reqs[r].product_id),
                                      reqs[r].data)
            /\ reqs' = Await(r, "update_stock", "fetch", reqs[r].product_id, <<>>)
            /\ UNCHANGED last
    /\ UNCHANGED <<books, nextOid, clock>>

update_stock_fetch(r) ==
    /\ r \in DOMAIN reqs
    /\ reqs[r].op = "update_stock"
    /\ reqs[r].pc = "fetch"
    /\ last' = Returned("update_stock", 200,
                        find_one(products, ObjectId(reqs[r].product_id)), 1, 1)
    /\ reqs' = Release(r)
    /\ UNCHANGED <<products, books, nextOid, clock>>

NextConc ==
    \/ Tick
    \/ products = <<>> /\ create_product(Pen)
    \/ \E product_id \in ConcIdStrings : delete_product(product_id)
    \/ \E product_ids \in SeqsUpTo(ConcIdStrings, 1) : delete_products(product_ids)
    \/ \E r \in Slots, product_id \in ConcIdStrings,
          product_update \in ConcUpdateInputs :
          update_product_start(r, product_id, product_update)
    \/ \E r \in Slots : update_product_find_one(r)
    \/ \E r \in Slots : update_product_update_one(r)
    \/ \E r \in Slots : update_product_fetch(r)
    \/ \E r \in Slots, product_id \in ConcIdStrings, stock \in ConcStockInputs :
          update_stock_start(r, product_id, stock)
    \/ \E r \in Slots : update_stock_update_one(r)
    \/ \E r \in Slots : update_stock_fetch(r)

SpecConc == Init /\ [][NextConc]_vars

----------------------------------------------------------------------------
(* The claims. *)

Timestamps == {"created_at", "updated_at"}

(* C1: every record persisted in the products collection satisfies the     *)
(* field constraints of the data model: name has 1 to 100 characters,      *)
(* description at most 500, price > 0 and stock >= 0, whatever bodies the  *)
(* create, update, update_stock and delete requests carried.               *)
C1_PersistedProductsValid ==
    \A o \in DOMAIN products :
        LET d == products[o]
        IN  /\ d["name"] # None
            /\ Len(d["name"][1]) >= 1
            /\ Len(d["name"][1]) <= 100
            /\ d["description"] # None
            /\ Len(d["description"][1]) <= 500
            /\ d["price"] # None
            /\ d["price"][1] > 0
            /\ d["stock"] # None
            /\ d["stock"][1] >= 0

(* C3: the record a create returns, for a product or a book, has           *)
(* created_at = updated_at, is the record stored, and carries an id above  *)
(* every id handed out before (so the id of no earlier record, deleted or  *)
(* not), also when the clock advances while the handler runs.              *)
C3_CreateStampsOnce ==
    (last.op \in {"create_product", "create_book"} /\ last.status = 201) =>
        LET r == last.result[1]
            coll == IF last.op = "create_product" THEN products ELSE books
        IN  /\ r["created_at"] = r["updated_at"]
            /\ ObjectId(r["id"]) = nextOid - 1
            /\ ObjectId(r["id"]) \in DOMAIN coll
            /\ \A f \in Fields \cup Timestamps : coll[ObjectId(r["id"])][f] = r[f]

C2_UpdateEndsIn200Or404 ==
    last.op \in {"update_product", "update_stock"} =>
        last.status \in {200, 400, 404}

(* C9: the by-category listing answers 404 only when no stored product has *)
(* the category asked for, and otherwise a non-empty list of products of   *)
(* that category; the general listing never answers 404.                   *)
C9_CategoryNotFoundIffNone ==
    /\ last.op = "get_products_by_category" =>
          /\ last.status \in {200, 404, 422}
          /\ last.status = 404 =>
                \A o \in DOMAIN products :
                    products[o]["category"] # Some(last.detail[2])
          /\ last.status = 200 =>
                /\ last.result # <<>>
                /\ \A i \in DOMAIN last.result :
                      \E o \in DOMAIN products :
                          /\ ObjectId(last.result[i]["id"]) = o
                          /\ last.result[i]["category"] = products[o]["category"]
    /\ last.op = "get_products" => last.status \in {200, 422}

(* What C10 asks of a listing of collection coll under a query. *)
C10_Satisfies(rec, category, min_price, max_price) ==
    /\ category # None => rec["category"] = category
    /\ min_price # None => (rec["price"] # None /\ rec["price"][1] >= min_price[1])
    /\ max_price # None => (rec["price"] # None /\ rec["price"][1] <= max_price[1])

C10_Listed(coll, result, skip, limit, category, min_price, max_price) ==
    LET found == {o \in DOMAIN coll :
                    C10_Satisfies(coll[o], category, min_price, max_price)}
    IN  \E q \in Orders(found) :
          /\ \A i, j \in DOMAIN q :
                i < j => coll[q[i]]["created_at"] >= coll[q[j]]["created_at"]
          /\ Len(result) = Min(Len(q), skip + limit) - Min(Len(q), skip)
          /\ Len(result) <= limit
          /\ \A i \in DOMAIN result :
                /\ ObjectId(result[i]["id"]) = q[skip + i]
                /\ \A f \in Fields \cup Timestamps : result[i][f] = coll[q[skip + i]][f]

(* C10: a listing of products or of books answers 200 with the records     *)
(* that satisfy every filter supplied (a category, when one is given, is a *)
(* non-empty string), newest first, cut to the window of limit records     *)
(* after the first skip; the list is empty when nothing matches.           *)
C10_ListIsFilteredSortedWindow ==
    [][\A skip \in SkipInputs, limit \in LimitInputs,
         category \in CategoryInputs \ {Some("")},
         min_price \in PriceInputs, max_price \in PriceInputs :
         (skip >= 0 /\ limit >= 1 /\ limit <= LimitMax) =>
            /\ get_products(skip, limit, category, min_price, max_price) =>
                  /\ last'.status = 200
                  /\ C10_Listed(products, last'.result, skip, limit,
                                category, min_price, max_price)
            /\ get_books(skip, limit, category, min_price, max_price) =>
                  /\ last'.status = 200
                  /\ C10_Listed(books, last'.result, skip, limit,
                                category, min_price, max_price)]_vars

(* What C4 asks of a step that applies the supplied fields to the record   *)
(* of product_id.                                                          *)
C4_OnlySuppliedFieldsChange(product_id, supplied) ==
    LET o == ObjectId(product_id)
    IN  /\ o \in DOMAIN products
        /\ DOMAIN products' = DOMAIN products
        /\ \A p \in DOMAIN products \ {o} : products'[p] = products[p]
        /\ DOMAIN products'[o] = DOMAIN products[o]
        /\ \A f \in DOMAIN products[o] \ {"updated_at"} :
              products'[o][f] =
                  IF f \in DOMAIN supplied THEN supplied[f] ELSE products[o][f]
        /\ products'[o]["updated_at"] = clock
        /\ books' = books
        /\ last'.status = 200 =>
              /\ Len(last'.result) = 1
              /\ ObjectId(last'.result[1]["id"]) = o
              /\ \A f \in Fields \cup Timestamps :
                    last'.result[1][f] = products'[o][f]

(* C4: an update that is applied (answered 200, or 500 when the record it  *)
(* wrote fails the response model) sets, in the record of its id, the     *)
(* fields its body supplies, a null one included, and updated_at; it       *)
(* leaves _id, created_at and the fields the body does not supply as they  *)
(* were, leaves every other record as it was, and a 200 returns the        *)
(* record as written.  update_stock does so for stock alone.               *)
C4_UpdateFrame ==
    [][/\ (last'.op = "update_product" /\ last'.status \in {200, 500}) =>
             \A product_id \in IdStrings, product_update \in UpdateInputs :
                partial_update_product(product_id, product_update) =>
                    C4_OnlySuppliedFieldsChange(product_id, product_update)
       /\ (last'.op = "update_stock" /\ last'.status \in {200, 500}) =>
             \A product_id \in IdStrings, stock \in StockInputs :
                update_stock(product_id, stock) =>
                    C4_OnlySuppliedFieldsChange(
                        product_id, [f \in {"stock"} |-> Some(stock)])]_vars

(* C4's case: of two records, one was updated with price and stock; it     *)
(* kept its name and description, and the other record was not touched.    *)
C4_Witness ==
    /\ last.op = "update_product"
    /\ last.status = 200
    /\ last.result[1]["price"] = Some(5)
    /\ last.result[1]["name"] = Some("Pen")
    /\ last.result[1]["created_at"] < last.result[1]["updated_at"]
    /\ \E o \in DOMAIN products :
          /\ o # ObjectId(last.result[1]["id"])
          /\ products[o]["price"] = Some(15)

(* What C6 asks of the step that answers a request for product_id.        *)
C6_Answer(product_id) ==
    /\ ~product_id.hex =>
          /\ last'.status = 400
          /\ last'.detail = <<"Invalid product ID format">>
          /\ last'.reads = 0
          /\ last'.writes = 0
          /\ products' = products
    /\ (product_id.hex /\ product_id.oid \notin DOMAIN products) =>
          /\ last'.status = 404
          /\ products' = products

(* C6: get_product, update_product, update_stock and delete_product, for   *)
(* a request that passes its schema, answer                                *)
(* 400 to an id that is not 24 hex digits, without a store call, and 404   *)
(* to a well-formed id no record has; both leave the collection as it      *)
(* was.  An id handed out and deleted is never a record's id again, so     *)
(* get_product answers 404 to it from then on.                             *)
C6_BadIdAndMissingId ==
    [][/\ last'.op = "get_product" =>
             \A product_id \in IdStrings :
                get_product(product_id) => C6_Answer(product_id)
       /\ last'.op = "update_product" =>
             \A product_id \in IdStrings, product_update \in UpdateInputs :
                partial_update_product(product_id, product_update) =>
                    C6_Answer(product_id)
       /\ last'.op = "update_stock" =>
             \A product_id \in IdStrings, stock \in StockInputs :
                update_stock(product_id, stock) => C6_Answer(product_id)
       /\ last'.op = "delete_product" =>
             \A product_id \in IdStrings :
                delete_product(product_id) => C6_Answer(product_id)
       /\ \A o \in 1..(nextOid - 1) :
             o \notin DOMAIN products => o \notin DOMAIN products']_vars

(* C6's case: get_product answers 404 to the id of a record that was       *)
(* created and has been deleted.                                           *)
C6_Witness ==
    /\ last.op = "get_product"
    /\ last.status = 404
    /\ last.detail[2].oid < nextOid
    /\ last.detail[2].oid \notin DOMAIN products

(* C7: update_product with a body that sets no field changes nothing in    *)
(* the store and answers 400 for a malformed id, else 404 for an id no     *)
(* record has, else 400 "No fields to update".                             *)
C7_EmptyUpdate ==
    [][last'.op = "update_product" =>
         \A product_id \in IdStrings :
            partial_update_product(product_id, EmptyBody) =>
                /\ products' = products
                /\ IF ~product_id.hex
                   THEN /\ last'.status = 400
                        /\ last'.detail = <<"Invalid product ID format">>
                   ELSE IF product_id.oid \notin DOMAIN products
                   THEN last'.status = 404
                   ELSE /\ last'.status = 400
                        /\ last'.detail = <<"No fields to update">>]_vars

(* C7's case: an empty update was refused for a record whose updated_at    *)
(* an applied update would have moved.                                     *)
C7_Witness ==
    /\ last.op = "update_product"
    /\ last.status = 400
    /\ last.detail = <<"No fields to update">>
    /\ \E o \in DOMAIN products : products[o]["updated_at"] < clock

(* C8: delete_products answers 400 and changes nothing when no id of the   *)
(* list is well-formed; otherwise it removes the records whose id a        *)
(* well-formed id of the list names, and no other, and reports as          *)
(* deleted_count the number of records removed, which is at most the       *)
(* number of distinct well-formed ids of the list.                         *)
C8_DeleteMany ==
    [][last'.op = "delete_products" =>
         \A product_ids \in IdLists :
            delete_products(product_ids) =>
                LET wellformed == {i \in DOMAIN product_ids : product_ids[i].hex}
                    named == {product_ids[i].oid : i \in wellformed}
                IN  IF wellformed = {}
                    THEN /\ last'.status = 400
                         /\ products' = products
                    ELSE /\ last'.status = 200
                         /\ DOMAIN products' = DOMAIN products \ named
                         /\ \A o \in DOMAIN products' : products'[o] = products[o]
                         /\ last'.result[1].deleted_count =
                               Cardinality(DOMAIN products)
                                   - Cardinality(DOMAIN products')
                         /\ last'.result[1].deleted_count <=
                               Cardinality({product_ids[i] : i \in wellformed})]_vars

(* C8's case: a list removed one record and left another.                  *)
C8_Witness ==
    /\ last.op = "delete_products"
    /\ last.status = 200
    /\ last.result[1].deleted_count = 1
    /\ Cardinality(DOMAIN products) = 1
    /\ nextOid = 3

====
